---- MODULE Spec2Model ----
(***************************************************************************)
(* Model of doctoshotgun.py: the sweep driver (Application.main), the      *)
(* per-center booking attempt (Doctolib.try_to_book) and the two-phase     *)
(* booking transaction (Doctolib.try_to_book_place).                       *)
(*                                                                         *)
(* The program is sequential.  Every action is one remote request          *)
(* together with the local code that runs on its response up to the next   *)
(* request; pc names the request the program is about to issue.  The       *)
(* remote service is the environment: each response is drawn from a small  *)
(* set.  Dates are whole days counted from today.                          *)
(*                                                                         *)
(* PageSpec applies the page methods find_better_slot and get_agenda_ids   *)
(* on their own, to every window and every agenda list of the bounds.      *)
(***************************************************************************)
EXTENDS FiniteSets, Integers, Sequences, TLC

\* ------------------------------------------------------------ bounds ----
MaxDate == 2        \* dates are today .. today + MaxDate
MaxSlots == 2       \* slots listed for one day
MaxPlaces == 2      \* places of one center
MaxAgendas == 1     \* agendas of one center
MaxMotives == 2     \* visit motives of one center
MaxFields == 1      \* custom fields of one appointment

\* ------------------------------------------------------- value sets ----
\* Python's None: TLC compares values of one kind only, so None is the empty
\* tuple where the other values are records or tuples, and NoneInt where they
\* are integers
None == <<>>
NoneInt == -1
today == 0
Dates == today .. (today + MaxDate)
\* ids are opaque: two practices, the motive ids 0 and 1, one profile, two
\* appointment ids
Practices == {1, 2}
MotiveIds == {0, 1}
ProfileIds == {1}
AppointmentIds == {1, 2}
MotiveNames == {"1re injection vaccin Pfizer", "Consultation"}
FieldIds == {"cov19", "allergie"}
Placeholders == {"", "Aucune"}
Answers == {"Oui"}

SeqsUpTo(S, n) == UNION {[1 .. k -> S] : k \in 0 .. n}

\* str(): decimal rendering of an id
str(i) == ToString(i)

\* '-'.join(list)
RECURSIVE join(_, _)
join(sep, l) ==
    IF Len(l) = 0 THEN ""
    ELSE IF Len(l) = 1 THEN l[1]
    ELSE l[1] \o sep \o join(sep, Tail(l))

\* Python truthiness of an id-or-None value: `not x`
Falsy(x) == x = NoneInt \/ x = 0

\* ------------------------------------------- remote response shapes ----
\* /booking/<center>.json
Motives == [id : MotiveIds, name : MotiveNames]
\* place i of a center belongs to practice i; an agenda serves one motive
PlaceLists == {[i \in 1 .. n |-> [practice_ids |-> <<i>>]] : n \in 0 .. MaxPlaces}
AgendaBodies == [practice_id : Practices, booking_disabled : BOOLEAN,
                 visit_motive_ids : {{m} : m \in MotiveIds}]
WithIds(l) == [i \in DOMAIN l |->
                 [id |-> i, practice_id |-> l[i].practice_id,
                  booking_disabled |-> l[i].booking_disabled,
                  visit_motive_ids |-> l[i].visit_motive_ids]]
AgendaLists == {WithIds(l) : l \in SeqsUpTo(AgendaBodies, MaxAgendas)}
BookingDocs == [visit_motives : SeqsUpTo(Motives, MaxMotives),
                places : PlaceLists,
                agendas : AgendaLists,
                profile : [id : ProfileIds]]

\* /availabilities.json and /second_shot_availabilities.json
\* a slot's start_date is <<day, rank in the day>>; the server lists the days
\* in date order and the slots of a day in time order
SlotsOfDay(d, n) == [i \in 1 .. n |-> [start_date |-> <<d, i>>]]
\* any window: some of the dates, each with some slots
RECURSIVE DaysFrom(_, _, _)
DaysFrom(d, days, n) ==
    IF d > today + MaxDate THEN <<>>
    ELSE IF d \in days
         THEN <<[date |-> d, slots |-> SlotsOfDay(d, n[d])]>> \o DaysFrom(d + 1, days, n)
    ELSE DaysFrom(d + 1, days, n)
Windows == {DaysFrom(today, days, n) :
              days \in SUBSET Dates, n \in [Dates -> 0 .. MaxSlots]}
\* a response is its availabilities and its next_slot, NoneInt for a response
\* without the key; the code reads the availabilities of a response without
\* next_slot only, and never the next_slot of a second-dose response
NextSlots == Dates \cup {NoneInt}
\* 'limit': 3 of both availability requests: the answer lists the days from
\* start_date on, Limit of them, or none at all
Limit == 3
WindowFrom(start, n) ==
    [k \in 1 .. Limit |-> [date |-> start + k - 1,
                           slots |-> SlotsOfDay(start + k - 1, n[k])]]
WindowsFrom(start) ==
    {<<>>} \cup {WindowFrom(start, n) : n \in [1 .. Limit -> 0 .. MaxSlots]}
\* the availabilities of a response that carries next_slot are never read:
\* no slot or a single one tells their cases apart
SkippedWindowsFrom(start) ==
    {<<>>} \cup {WindowFrom(start, [k \in 1 .. Limit |-> IF k = j THEN 1 ELSE 0]) :
                   j \in 0 .. Limit}

\* /appointments.json: 'error' in doc, doc['id']
AppointmentDocs == [error : BOOLEAN, id : AppointmentIds]

\* /appointments/<id>/edit.json
Fields == [id : FieldIds, required : BOOLEAN, placeholder : Placeholders]
EditDocs == [custom_fields : {l \in SeqsUpTo(Fields, MaxFields) :
                               \A i, j \in DOMAIN l : l[i].id = l[j].id => i = j}]

\* /appointments/<id>.json (PUT answer and read-back)
PostDocs == [confirmed : BOOLEAN, redirection : BOOLEAN]

\* -------------------------------------------------- page methods ----
\* the regular expression r'1re.*(Pfizer|Moderna)' on the names of the model
re_search(name) == name = "1re injection vaccin Pfizer"

\* CenterBookingPage.find_motive
RECURSIVE find_motive_from(_, _)
find_motive_from(motives, i) ==
    IF i > Len(motives) THEN NoneInt
    ELSE IF re_search(motives[i].name) THEN motives[i].id
    ELSE find_motive_from(motives, i + 1)
find_motive(doc) == find_motive_from(doc.visit_motives, 1)

\* CenterBookingPage.get_agenda_ids
RECURSIVE agenda_ids_from(_, _, _, _)
agenda_ids_from(agendas, i, motive, practice) ==
    IF i > Len(agendas) THEN <<>>
    ELSE LET a == agendas[i]
             rest == agenda_ids_from(agendas, i + 1, motive, practice)
         IN IF /\ motive \in a.visit_motive_ids
               /\ ~a.booking_disabled
               /\ (Falsy(practice) \/ a.practice_id = practice)
            THEN <<str(a.id)>> \o rest
            ELSE rest
get_agenda_ids(doc, motive, practice) ==
    agenda_ids_from(doc.agendas, 1, motive, practice)

\* AvailabilitiesPage.find_better_slot
RECURSIVE find_better_slot_from(_, _, _)
find_better_slot_from(avail, i, limit) ==
    IF i > Len(avail) THEN None
    ELSE IF limit /\ avail[i].date > today + 1
         THEN find_better_slot_from(avail, i + 1, limit)
    ELSE IF Len(avail[i].slots) = 0
         THEN find_better_slot_from(avail, i + 1, limit)
    ELSE avail[i].slots[Len(avail[i].slots)]

\* find_better_slot as it would be if the date test were left out
find_better_slot_any_date(doc, limit) ==
    find_better_slot_from(doc.availabilities, 1, FALSE)

find_better_slot(doc, limit) == find_better_slot_from(doc.availabilities, 1, limit)

\* the slots of a window that pass the date test of find_better_slot
eligible_slots(avail, limit) ==
    UNION {{avail[i].slots[j] : j \in DOMAIN avail[i].slots} :
             i \in {k \in DOMAIN avail : ~(limit /\ avail[k].date > today + 1)}}

\* is_error as it would be if the 'error' key of the answer were never looked at
is_error_ignored(doc) == FALSE

\* AppointmentPage.is_error
is_error(doc) == doc.error

\* get_custom_fields as it would be if 'required' were not looked at
get_custom_fields_all(doc) == doc.custom_fields

\* AppointmentEditPage.get_custom_fields
get_custom_fields(doc) == SelectSeq(doc.custom_fields, LAMBDA f : f.required)

\* ------------------------------------------------------------ state ----
VARIABLES
    pc,             \* the request the program is about to issue, or a return point
    exc,            \* exception that ended the process, if any
    exit_code,      \* exit status of the process, NoneInt while it runs
    logged,         \* Doctolib._logged
    center_page,    \* try_to_book: center_page, its places with their agendas
    profile_id,     \* try_to_book: profile_id
    motive_id,      \* try_to_book: motive_id
    pi,             \* try_to_book: index of the place being tried
    result,         \* value returned by try_to_book, read at pc = "book_ret"
    practice_id,    \* try_to_book_place: practice_id
    agenda_ids,     \* try_to_book_place: agenda_ids
    date,           \* try_to_book_place: date
    data,           \* try_to_book_place: data
    a_id,           \* try_to_book_place: a_id
    master_patient, \* try_to_book_place: master_patient
    ret,            \* value returned by try_to_book_place, read at pc = "place_ret"
    req,            \* the request sent by the last step, NoRequest if it sent none
    queried,        \* history: start dates queried so far in the current scan
    first,          \* history: outcome of the create request of the transaction
    confirmed,      \* history: 'confirmed' of the read-back
    created,        \* history: places whose create request was accepted in this call
    rejected,       \* history: a create or attach of the transaction was rejected
    logins,         \* history: number of do_login calls of the process
    prior,          \* history: how the previous try_to_book call ended, if every
                    \*          create request of it was rejected
    tried,          \* history: a create request was sent in this call
    followed,       \* history: a second-dose, attach or finalize request was sent
                    \*          in this call
    not_found,      \* history: 'Unable to find ARNm motive' was logged in this call
    first_match,    \* history: id of the first motive of the page whose name matches
    seen,           \* history: a window fetched in the scan held an eligible slot
    pending,        \* history: next date the remote supplied with the answer the
                    \*          search was given up on
    edit_fields,    \* history: custom_fields of the edit page the answers are made for
    stdin,          \* history: the lines read from stdin for those fields
    create_data,    \* history: body of the create request, while the payload lives
    attach_id,      \* history: id in the answer to the attach request
    call            \* a page method applied on its own: its arguments and values

procVars == <<exc, exit_code>>
mainVars == <<logged, logins, prior>>
bookHist == <<tried, followed, not_found, first_match>>
bookVars == <<center_page, profile_id, motive_id, pi, created, bookHist>>
placeHist == <<seen, pending, edit_fields, stdin, create_data, attach_id>>
placeVars == <<practice_id, agenda_ids, date, data, a_id, master_patient,
               ret, queried, first, confirmed, rejected, placeHist>>
vars == <<pc, procVars, mainVars, bookVars, placeVars, result, req, call>>

NoRequest == [kind |-> "none"]

Init ==
    /\ pc = "find_centers"
    /\ exc = None /\ exit_code = NoneInt
    /\ logged = FALSE
    /\ center_page = None /\ profile_id = NoneInt /\ motive_id = NoneInt /\ pi = 0
    /\ result = FALSE
    /\ practice_id = NoneInt /\ agenda_ids = <<>> /\ date = NoneInt
    /\ data = None /\ a_id = NoneInt /\ master_patient = None /\ ret = FALSE
    /\ req = NoRequest
    /\ queried = {} /\ first = "none" /\ confirmed = FALSE
    /\ created = {} /\ rejected = FALSE
    /\ logins = 0 /\ prior = None
    /\ tried = FALSE /\ followed = FALSE
    /\ not_found = FALSE /\ first_match = NoneInt
    /\ seen = FALSE /\ pending = NoneInt
    /\ edit_fields = <<>> /\ stdin = <<>>
    /\ create_data = None /\ attach_id = NoneInt
    /\ call = None

\* ------------------------------------------------ Application.main ----
\* Doctolib.find_centers up to its first yield: the listing request and, if
\* it lists a center, the request for that center's search result; an empty
\* listing ends the for loop at once: sleep(5) and the next sweep
FindCenters ==
    /\ pc = "find_centers"
    /\ req' = [kind |-> "centers"]
    /\ \E empty \in BOOLEAN :
         pc' = IF empty THEN "find_centers" ELSE "center_result"
    /\ UNCHANGED <<procVars, mainVars, bookVars, placeVars, result, call>>

\* the generator opens the search result of the next center and yields it;
\* main logs in first if the browser is not logged
CenterResult ==
    /\ pc = "center_result"
    /\ req' = [kind |-> "center_result"]
    /\ pc' = IF ~logged THEN "login" ELSE "open_center"
    /\ UNCHANGED <<procVars, mainVars, bookVars, placeVars, result, call>>

\* do_login as it would be if it did not record the login
do_login_forgetful ==
    /\ pc = "login"
    /\ req' = [kind |-> "login"]
    /\ logins' = logins + 1
    /\ pc' = "open_center"
    /\ UNCHANGED <<procVars, logged, prior, bookVars, placeVars, result, call>>

\* Doctolib.do_login
do_login ==
    /\ pc = "login"
    /\ req' = [kind |-> "login"]
    /\ logged' = TRUE
    /\ logins' = logins + 1
    /\ pc' = "open_center"
    /\ UNCHANGED <<procVars, prior, bookVars, placeVars, result, call>>

\* the locals of try_to_book_place and of try_to_book go out of scope when
\* the call returns
DropPlaceLocals ==
    /\ practice_id' = NoneInt /\ agenda_ids' = <<>> /\ date' = NoneInt
    /\ data' = None /\ a_id' = NoneInt /\ master_patient' = None /\ ret' = FALSE
    /\ queried' = {} /\ first' = "none" /\ confirmed' = FALSE
    /\ rejected' = FALSE
    /\ seen' = FALSE /\ pending' = NoneInt
    /\ edit_fields' = <<>> /\ stdin' = <<>>
    /\ create_data' = None /\ attach_id' = NoneInt
DropBookLocals ==
    /\ center_page' = None /\ profile_id' = NoneInt /\ motive_id' = NoneInt /\ pi' = 0
    /\ created' = {}
    /\ tried' = FALSE /\ followed' = FALSE
    /\ not_found' = FALSE /\ first_match' = NoneInt

\* the process ends: nothing of the program's memory is left
Halt ==
    /\ pc' = "exit"
    /\ logged' = FALSE /\ prior' = None
    /\ DropBookLocals
    /\ DropPlaceLocals
    /\ req' = NoRequest
    /\ UNCHANGED <<logins, call>>

\* main, after try_to_book returned: 'Booked!' and return 0, or sleep(1) and
\* the next center of the listing, or, the listing exhausted, sleep(5) and
\* the next sweep
BookReturn ==
    /\ pc = "book_ret"
    /\ IF result = TRUE
       THEN /\ exit_code' = 0
            /\ Halt
       ELSE /\ exit_code' = exit_code
            /\ \E more \in BOOLEAN :
                 pc' = IF more THEN "center_result" ELSE "find_centers"
            /\ prior' = IF tried /\ created = {}
                        THEN [result |-> result, followed |-> followed]
                        ELSE None
            /\ DropBookLocals
            /\ req' = NoRequest
            /\ UNCHANGED <<logged, logins, placeVars, call>>
    /\ UNCHANGED <<exc, result>>

\* ------------------------------------------- Doctolib.try_to_book ----
\* self.open(center['url'])
OpenCenter ==
    /\ pc = "open_center"
    /\ req' = [kind |-> "center"]
    /\ pc' = "center_booking"
    /\ UNCHANGED <<procVars, mainVars, bookVars, placeVars, result, call>>

\* the id of the first motive, in the order of the page, whose name the
\* pattern matches, NoneInt if it matches none
first_matching(motives) ==
    LET matching == {i \in DOMAIN motives : re_search(motives[i].name)}
    IN IF matching = {} THEN NoneInt
       ELSE motives[CHOOSE i \in matching : \A j \in matching : i <= j].id

\* the agenda ids of a place as they would be without the second call
place_agenda_ids_scoped(doc, motive, practice) ==
    get_agenda_ids(doc, motive, practice)

\* the agenda ids the for loop passes on for a place of the practice: the
\* practice's, or with none of those, every agenda of the motive
place_agenda_ids(doc, motive, practice) ==
    LET scoped == get_agenda_ids(doc, motive, practice)
    IN IF Len(scoped) = 0 THEN get_agenda_ids(doc, motive, NoneInt) ELSE scoped

\* the for loop reaches place i: the entry of try_to_book_place up to its
\* first availabilities request
EnterPlace(page, i) ==
    /\ pi' = i
    /\ practice_id' = page[i].practice_id
    /\ agenda_ids' = page[i].agenda_ids
    /\ date' = today
    /\ data' = None /\ a_id' = NoneInt /\ master_patient' = None
    /\ ret' = FALSE
    /\ queried' = {} /\ first' = "none" /\ confirmed' = FALSE
    /\ rejected' = FALSE
    /\ seen' = FALSE /\ pending' = NoneInt
    /\ edit_fields' = <<>> /\ stdin' = <<>>
    /\ create_data' = None /\ attach_id' = NoneInt
    /\ pc' = "availabilities"

\* self.center_booking.go(...), motive resolution, first place.  The page is
\* read again at every place of the loop; what is read of it, the practice
\* and the agenda ids of each place, is kept in center_page
CenterBooking ==
    /\ pc = "center_booking"
    /\ req' = [kind |-> "center_booking"]
    /\ created' = {} /\ tried' = FALSE /\ followed' = FALSE
    /\ \E doc \in BookingDocs :
         LET motive == find_motive(doc)
             page == [i \in DOMAIN doc.places |->
                        LET practice == doc.places[i].practice_ids[1]
                        IN [practice_id |-> practice,
                            agenda_ids |-> IF Falsy(motive) THEN <<>>
                                           ELSE place_agenda_ids(doc, motive, practice)]]
         IN
         /\ profile_id' = doc.profile.id
         /\ motive_id' = motive
         /\ not_found' = Falsy(motive)
         /\ first_match' = first_matching(doc.visit_motives)
         /\ IF Falsy(motive) \/ Len(doc.places) = 0
            THEN /\ result' = FALSE
                 /\ pc' = "book_ret"
                 /\ pi' = 0
                 /\ center_page' = None
                 /\ UNCHANGED placeVars
            ELSE /\ result' = FALSE
                 /\ center_page' = page
                 /\ EnterPlace(page, 1)
    /\ UNCHANGED <<procVars, mainVars, call>>

\* try_to_book_place returned to the for loop of try_to_book
PlaceReturn ==
    /\ pc = "place_ret"
    /\ IF ret = TRUE
       THEN /\ result' = TRUE /\ pc' = "book_ret"
            /\ DropPlaceLocals
            /\ UNCHANGED pi
       ELSE IF pi < Len(center_page)
       THEN /\ result' = result
            /\ EnterPlace(center_page, pi + 1)
       ELSE /\ result' = FALSE /\ pc' = "book_ret"
            /\ DropPlaceLocals
            /\ UNCHANGED pi
    /\ req' = NoRequest
    /\ UNCHANGED <<procVars, mainVars, center_page, profile_id, motive_id,
                   created, bookHist, call>>

\* -------------------------------------- Doctolib.try_to_book_place ----
\* the parameters common to both availability requests
AvailParams(kind, start) ==
    [kind |-> kind, start_date |-> start, visit_motive_ids |-> motive_id,
     agenda_ids |-> join("-", agenda_ids), practice_ids |-> practice_id]

\* one turn of the while loop; on the response without next_slot the code
\* runs on to the selection of the first slot and builds the payload
GetAvailabilities ==
    /\ pc = "availabilities"
    /\ req' = AvailParams("availabilities", date)
    /\ \E next_slot \in NextSlots :
         IF next_slot # NoneInt
         THEN /\ date' = next_slot
              /\ queried' = queried \cup {date}
              /\ \E availabilities \in SkippedWindowsFrom(date) :
                   seen' = (seen \/ eligible_slots(availabilities, TRUE) # {})
              /\ pc' = "availabilities"
              /\ UNCHANGED <<data, ret>>
         ELSE /\ date' = NoneInt
              /\ queried' = {}
              /\ \E availabilities \in WindowsFrom(date) :
                 LET doc == [availabilities |-> availabilities] IN
                 /\ seen' = (seen \/ eligible_slots(availabilities, TRUE) # {})
                 /\ IF Len(doc.availabilities) = 0
                    THEN /\ ret' = FALSE /\ pc' = "place_ret"
                         /\ UNCHANGED data
                    ELSE LET slot == find_better_slot(doc, TRUE) IN
                         IF slot = None
                         THEN /\ ret' = FALSE /\ pc' = "place_ret"
                              /\ UNCHANGED data
                         ELSE /\ data' = [agenda_ids |-> join("-", agenda_ids),
                                          appointment |->
                                            [profile_id |-> profile_id,
                                             start_date |-> slot.start_date,
                                             visit_motive_ids |-> str(motive_id)],
                                          practice_ids |-> <<practice_id>>,
                                          second_slot |-> None]
                              /\ pc' = "create"
                              /\ UNCHANGED ret
    /\ UNCHANGED <<procVars, mainVars, bookVars, result, practice_id, agenda_ids,
                   a_id, master_patient, first, confirmed, rejected,
                   pending, edit_fields, stdin, create_data, attach_id, call>>

\* the create request for the first dose
CreateAppointment ==
    /\ pc = "create"
    /\ req' = [kind |-> "appointment", data |-> data]
    /\ \E doc \in AppointmentDocs :
         /\ first' = IF doc.error THEN "error" ELSE "ok"
         /\ rejected' = doc.error
         /\ created' = IF doc.error THEN created ELSE created \cup {pi}
         /\ tried' = TRUE
         /\ create_data' = data
         /\ IF is_error(doc)
            THEN ret' = FALSE /\ pc' = "place_ret"
            ELSE pc' = "second_shot" /\ UNCHANGED ret
    /\ UNCHANGED <<procVars, mainVars, center_page, profile_id, motive_id, pi,
                   followed, not_found, first_match,
                   result, practice_id, agenda_ids, date, data, a_id,
                   master_patient, queried, confirmed,
                   seen, pending, edit_fields, stdin, attach_id, call>>

\* data['second_slot'] = second_slot['start_date'] as it would be if the
\* payload were built again around the second slot
attach_payload_rebuilt(d, second_slot) ==
    [d EXCEPT !.appointment.start_date = second_slot.start_date,
              !.second_slot = second_slot.start_date]

\* data['second_slot'] = second_slot['start_date']
attach_payload(d, second_slot) ==
    [d EXCEPT !.second_slot = second_slot.start_date]

\* the single second-dose query and the selection of the second slot.  The
\* selected first slot is read back from the payload built from it: step is
\* its steps[1]['start_date'].split('T')[0], a field of the remote's answer
\* read here for the first time
SecondShot ==
    /\ pc = "second_shot"
    /\ \E step \in Dates :
         /\ req' = AvailParams("second_shot_availabilities", step)
                     @@ [first_slot |-> data.appointment.start_date]
         /\ \E availabilities \in WindowsFrom(step) :
              LET doc == [availabilities |-> availabilities]
                  second_slot == find_better_slot(doc, FALSE) IN
              IF second_slot = None
              THEN /\ ret' = FALSE /\ pc' = "place_ret"
                   /\ \E next_slot \in NextSlots : pending' = next_slot
                   /\ UNCHANGED data
              ELSE /\ data' = attach_payload(data, second_slot)
                   /\ pending' = NoneInt
                   /\ pc' = "attach"
                   /\ UNCHANGED ret
    /\ followed' = TRUE
    /\ UNCHANGED <<procVars, mainVars, center_page, profile_id, motive_id, pi,
                   created, tried, not_found, first_match,
                   result, practice_id, agenda_ids,
                   date, a_id, master_patient, queried, first,
                   confirmed, rejected,
                   seen, edit_fields, stdin, create_data, attach_id, call>>

\* the payload is sent again with the second slot attached
AttachSecond ==
    /\ pc = "attach"
    /\ req' = [kind |-> "appointment", data |-> data]
    /\ \E doc \in AppointmentDocs :
         /\ rejected' = doc.error
         /\ attach_id' = IF doc.error THEN NoneInt ELSE doc.id
         /\ IF is_error(doc)
            THEN /\ ret' = FALSE /\ pc' = "place_ret"
                 /\ UNCHANGED a_id
            ELSE /\ a_id' = doc.id
                 /\ pc' = "edit"
                 /\ UNCHANGED ret
    /\ UNCHANGED <<procVars, mainVars, center_page, profile_id, motive_id, pi,
                   created, bookHist,
                   result, practice_id, agenda_ids, date, data,
                   master_patient, queried, first, confirmed,
                   seen, pending, edit_fields, stdin, create_data, call>>

\* self.appointment_edit.go(id=a_id)
AppointmentEdit ==
    /\ pc = "edit"
    /\ req' = [kind |-> "appointment_edit", id |-> a_id, master_patient_id |-> NoneInt]
    /\ pc' = "master_patient"
    /\ UNCHANGED <<procVars, mainVars, bookVars, placeVars, result, call>>

\* self.master_patient.go(); get_patient()
MasterPatient ==
    /\ pc = "master_patient"
    /\ req' = [kind |-> "master_patient"]
    /\ \E p \in ProfileIds : master_patient' = [id |-> p]
    /\ pc' = "edit_patient"
    /\ UNCHANGED <<procVars, mainVars, bookVars, result, practice_id, agenda_ids,
                   date, data, a_id, ret, queried, first,
                   confirmed, rejected, placeHist, call>>

\* custom_fields[field['id']] = value, for the required fields in order;
\* typed[i] is the line read from stdin for the i-th required field
RECURSIVE answer_fields(_, _, _, _)
answer_fields(fields, i, typed, custom_fields) ==
    IF i > Len(fields) THEN custom_fields
    ELSE LET field == fields[i]
             value == IF field.id = "cov19" THEN "Non"
                      ELSE IF field.placeholder # "" THEN field.placeholder
                      ELSE typed[i]
         IN answer_fields(fields, i + 1, typed,
                [k \in DOMAIN custom_fields \cup {field.id} |->
                    IF k = field.id THEN value ELSE custom_fields[k]])

\* the edit page for the patient, the answers to its required fields and the
\* payload of the finalize request
EditPatient ==
    /\ pc = "edit_patient"
    /\ req' = [kind |-> "appointment_edit", id |-> a_id,
               master_patient_id |-> master_patient.id]
    /\ \E doc \in EditDocs, typed \in [1 .. MaxFields -> Answers] :
         /\ data' = [appointment |->
                       [custom_fields_values |->
                          answer_fields(get_custom_fields(doc), 1, typed, <<>>)],
                     master_patient |-> master_patient]
         /\ edit_fields' = doc.custom_fields
         /\ stdin' = typed
    /\ create_data' = None
    /\ pc' = "finalize"
    /\ UNCHANGED <<procVars, mainVars, bookVars, result, practice_id, agenda_ids,
                   date, a_id, master_patient, ret, queried, first,
                   confirmed, rejected, seen, pending, attach_id, call>>

\* the PUT of the patient payload; nothing is kept of its answer, which is
\* only searched for a 'redirection' to log
Finalize ==
    /\ pc = "finalize"
    /\ req' = [kind |-> "appointment_post", method |-> "PUT", id |-> a_id,
               data |-> data]
    /\ pc' = "readback"
    /\ edit_fields' = <<>> /\ stdin' = <<>>
    /\ UNCHANGED <<procVars, mainVars, bookVars, result, practice_id, agenda_ids,
                   date, data, a_id, master_patient, ret, queried, first,
                   confirmed, rejected, seen, pending, create_data, attach_id,
                   call>>

\* the read-back; its 'confirmed' is logged and the function returns True
ReadBack ==
    /\ pc = "readback"
    /\ req' = [kind |-> "appointment_post", method |-> "GET", id |-> a_id]
    /\ \E doc \in PostDocs : confirmed' = doc.confirmed
    /\ ret' = TRUE
    /\ pc' = "place_ret"
    /\ UNCHANGED <<procVars, mainVars, bookVars, result, practice_id, agenda_ids,
                   date, data, a_id, master_patient, queried, first,
                   rejected, placeHist, call>>

\* ------------------------------------------------------ exceptions ----
RequestPcs == {"find_centers", "center_result", "login", "open_center",
               "center_booking", "availabilities", "create", "second_shot",
               "attach", "edit", "master_patient", "edit_patient", "finalize",
               "readback"}
BookingPcs == RequestPcs \ {"find_centers", "center_result", "login"}

\* a request raises (connection failure, HTTP error status): nothing in
\* try_to_book_place, try_to_book or main catches it, and __main__ catches
\* KeyboardInterrupt only, so the interpreter prints the traceback and exits
\* with status 1
TransportError ==
    /\ pc \in RequestPcs
    /\ exc' = [type |-> "TransportError", at |-> pc]
    /\ exit_code' = 1
    /\ result' = FALSE
    /\ Halt

\* the operator interrupts the process: 'Abort.' and sys.exit(1)
KeyboardInterrupt ==
    /\ pc # "exit"
    /\ exc' = [type |-> "KeyboardInterrupt", at |-> pc]
    /\ exit_code' = 1
    /\ result' = FALSE
    /\ Halt

\* ---------------------------------------------------- specification ----
Step ==
    \/ FindCenters
    \/ CenterResult
    \/ do_login
    \/ OpenCenter
    \/ CenterBooking
    \/ PlaceReturn
    \/ GetAvailabilities
    \/ CreateAppointment
    \/ SecondShot
    \/ AttachSecond
    \/ AppointmentEdit
    \/ MasterPatient
    \/ EditPatient
    \/ Finalize
    \/ ReadBack
    \/ BookReturn

Next ==
    \/ Step
    \/ TransportError
    \/ KeyboardInterrupt

Spec == Init /\ [][Next]_vars

\* the interpreter always runs the next statement of a running program; the
\* remote and the operator are under no obligation
FairSpec == Spec /\ WF_vars(Step)

\* ---------------------------------------- page methods on their own ----
\* the state of the running program, which a page method leaves alone
progVars == <<pc, procVars, mainVars, bookVars, placeVars, result, req>>

\* AvailabilitiesPage.find_better_slot on a window, with the date limit as
\* for the first dose and without it as for the second
SelectSlot ==
    /\ \E availabilities \in Windows :
         LET doc == [availabilities |-> availabilities] IN
         call' = [fn |-> "find_better_slot", doc |-> doc,
                  near |-> find_better_slot(doc, TRUE),
                  far |-> find_better_slot(doc, FALSE)]
    /\ UNCHANGED progVars

\* CenterBookingPage.get_agenda_ids on the agendas of a page, for a place of
\* a practice as the for loop of try_to_book calls it
ResolveAgendas ==
    /\ \E agendas \in AgendaLists, motive \in MotiveIds, practice \in Practices :
         LET doc == [agendas |-> agendas] IN
         call' = [fn |-> "get_agenda_ids", doc |-> doc,
                  motive_id |-> motive, practice_id |-> practice,
                  scoped |-> get_agenda_ids(doc, motive, practice),
                  unscoped |-> get_agenda_ids(doc, motive, NoneInt),
                  used |-> place_agenda_ids(doc, motive, practice)]
    /\ UNCHANGED progVars

PageNext ==
    \/ SelectSlot
    \/ ResolveAgendas

PageSpec == Init /\ [][PageNext]_vars

\* ------------------------------------------------------ properties ----
\* positions inside one booking transaction (one try_to_book_place call)
TxnPcs == {"availabilities", "create", "second_shot", "attach", "edit",
           "master_patient", "edit_patient", "finalize", "readback"}
ReadBackDone == pc = "place_ret" /\ req.kind = "appointment_post" /\ req.method = "GET"

\* C1: the value returned by a transaction that reached the read-back equals
\* the 'confirmed' flag of that read-back
C1_ReturnsReadBackFlag == ReadBackDone => (ret = confirmed)

\* C2: every availability query carries a non-empty agenda set
C2_AgendasNonEmpty ==
    req.kind \in {"availabilities", "second_shot_availabilities"}
        => req.agenda_ids # ""

\* C3: within one try_to_book call at most one create request is accepted
C3_AtMostOneCreated == Cardinality(created) <= 1

\* C4: a second-dose query is sent only after the create request of the same
\* transaction was answered without error; after an answer with an error the
\* transaction has returned False and the create is still the last request
C4_SecondAfterFirst ==
    /\ (pc = "second_shot" \/ req.kind = "second_shot_availabilities")
           => first = "ok"
    /\ first = "error" => pc = "place_ret" /\ ret = FALSE /\ req.kind = "appointment"
C4_Witness == req.kind = "second_shot_availabilities" /\ first = "ok"

\* C5: when a transaction ends on a rejected create or attach request, the
\* call returns False without a further request for the center
RejectedAbandons ==
    (pc = "place_ret" /\ rejected)
        => \/ pc' = "book_ret" /\ result' = FALSE
           \/ pc' = "exit"
C5_CenterAbandoned == [][RejectedAbandons]_vars

\* C6: every first-dose scan ends
C6_ScanTerminates == [](pc = "availabilities" => <>(pc # "availabilities"))

\* C7: the date about to be queried is later than every date already queried
\* in the scan
C7_DatesIncrease == pc = "availabilities" => \A d \in queried : date > d

\* the state of the transaction, by the position of the code
TxnState ==
    CASE pc = "availabilities" -> "SEARCHING_FIRST"
      [] pc = "create" -> "FIRST_CREATED"
      [] pc = "second_shot" -> "SEARCHING_SECOND"
      [] pc = "attach" -> "SECOND_ATTACHED"
      [] pc \in {"edit", "master_patient", "edit_patient", "finalize"} -> "FINALIZING"
      [] pc = "readback" -> "CONFIRMED"
      [] pc = "place_ret" -> IF ret THEN "CONFIRMED" ELSE "ABORTED"
      [] OTHER -> "NONE"
TxnSuccessors(s) ==
    CASE s = "SEARCHING_FIRST" -> {"SEARCHING_FIRST", "FIRST_CREATED", "ABORTED"}
      [] s = "FIRST_CREATED" -> {"SEARCHING_SECOND", "ABORTED"}
      [] s = "SEARCHING_SECOND" -> {"SECOND_ATTACHED", "ABORTED"}
      [] s = "SECOND_ATTACHED" -> {"FINALIZING", "ABORTED"}
      [] s = "FINALIZING" -> {"FINALIZING", "CONFIRMED", "ABORTED"}
      [] s = "CONFIRMED" -> {"CONFIRMED", "NONE"}
      [] s = "ABORTED" -> {"SEARCHING_FIRST", "NONE"}
      [] OTHER -> {"SEARCHING_FIRST", "NONE"}
TxnRunning == TxnState \notin {"CONFIRMED", "ABORTED", "NONE"}
TxnOrder == pc' # "exit" => TxnState' \in TxnSuccessors(TxnState)
TxnStepConfirmed ==
    /\ pc \in TxnPcs \ {"availabilities", "create"} => first = "ok"
    /\ pc \in {"edit", "master_patient", "edit_patient", "finalize", "readback"}
           => ~rejected /\ a_id # NoneInt

\* C8: a transaction moves along SEARCHING_FIRST, FIRST_CREATED,
\* SEARCHING_SECOND, SECOND_ATTACHED, FINALIZING, CONFIRMED or to ABORTED,
\* starts no step before the remote confirmed the one before, and ends
C8_StateMachine ==
    /\ [][TxnOrder]_vars
    /\ []TxnStepConfirmed
    /\ [](TxnRunning => <>(~TxnRunning))

\* C9: a transport error raised during a center's attempt does not end the
\* process
C9_ErrorStopsAttemptOnly ==
    (exc # None /\ exc.type = "TransportError" /\ exc.at \in BookingPcs)
        => pc # "exit"

ExitOnlyBookedOrInterrupted ==
    pc = "exit" => \/ exit_code = 0 /\ result = TRUE
                   \/ exc # None /\ exc.type = "KeyboardInterrupt"
FalseTriesAgain ==
    (pc = "book_ret" /\ result = FALSE)
        => pc' \in {"center_result", "find_centers"}
              \/ (pc' = "exit" /\ exc'.type = "KeyboardInterrupt")
TrueStops == (pc = "book_ret" /\ result = TRUE) => pc' = "exit"

\* C10: the sweep driver ends only on a booking or an operator interrupt: a
\* False attempt is followed by another attempt, a True attempt by the exit
C10_SweepDriver ==
    /\ []ExitOnlyBookedOrInterrupted
    /\ [][FalseTriesAgain]_vars
    /\ [][TrueStops]_vars

\* C11: a call in which every create request was answered with an error
\* returns False, with no appointment accepted and no second-dose, attach or
\* finalize request sent; so did the call before it, if it was such a call
C11_SlotTakenIdempotent ==
    (pc = "book_ret" /\ tried /\ created = {})
        => /\ result = FALSE /\ ~followed
           /\ prior # None => prior.result = FALSE /\ ~prior.followed
C11_Witness == pc = "book_ret" /\ tried /\ created = {} /\ prior # None

SelectDone == call # None /\ call.fn = "find_better_slot"

\* the slots of the days that pass the date policy, in the order of the window
RECURSIVE eligible_in_order(_, _)
eligible_in_order(avail, near_term_only) ==
    IF avail = <<>> THEN <<>>
    ELSE (IF near_term_only /\ Head(avail).date > today + 1
          THEN <<>> ELSE Head(avail).slots)
         \o eligible_in_order(Tail(avail), near_term_only)
last_eligible(avail, near_term_only) ==
    LET l == eligible_in_order(avail, near_term_only)
    IN IF l = <<>> THEN None ELSE l[Len(l)]

\* C12: find_better_slot returns the last slot, in the order of the window,
\* among all its slots that pass the date policy, and None when there is none
C12_SelectsLastEligible ==
    SelectDone
        => /\ call.near = last_eligible(call.doc.availabilities, TRUE)
           /\ call.far = last_eligible(call.doc.availabilities, FALSE)

Selectable(value) == IF value = None THEN {} ELSE {value}

ResolveDone == call # None /\ call.fn = "get_agenda_ids"
Range(l) == {l[i] : i \in DOMAIN l}
\* the enabled agendas serving the motive, and those of them of the practice
unscoped_selection(agendas, motive) ==
    {str(agendas[i].id) : i \in {k \in DOMAIN agendas :
                                    /\ ~agendas[k].booking_disabled
                                    /\ motive \in agendas[k].visit_motive_ids}}
scoped_selection(agendas, motive, practice) ==
    {str(agendas[i].id) : i \in {k \in DOMAIN agendas :
                                    /\ ~agendas[k].booking_disabled
                                    /\ motive \in agendas[k].visit_motive_ids
                                    /\ agendas[k].practice_id = practice}}

C15_MotiveResolution ==
    req.kind = "center_booking"
        => /\ not_found <=> first_match = NoneInt
           /\ ~not_found => motive_id = first_match
           /\ not_found => pc = "book_ret" /\ result = FALSE

\* C16: the first-dose scan sends no query after a window that held an
\* eligible slot, and gives up only if no window it fetched held one
C16_ScanStopsAtEligible ==
    /\ pc = "availabilities" => ~seen
    /\ (pc = "place_ret" /\ req.kind = "availabilities") => ~seen

\* C17: the second-dose search is given up only on an answer that supplies no
\* next date
C17_SecondScanFollows ==
    (pc = "place_ret" /\ req.kind = "second_shot_availabilities")
        => pending = NoneInt

\* C18: the payload about to be sent by the finalize request answers the
\* required fields of the edit page and no other: 'Non' for cov19, else the
\* placeholder if there is one, else a line read from stdin
C18_RequiredFieldsAnswered ==
    pc = "finalize"
        => LET values == data.appointment.custom_fields_values
               required == {i \in DOMAIN edit_fields : edit_fields[i].required}
           IN /\ DOMAIN values = {edit_fields[i].id : i \in required}
              /\ \A i \in required :
                   LET field == edit_fields[i] IN
                   IF field.id = "cov19" THEN values[field.id] = "Non"
                   ELSE IF field.placeholder # ""
                        THEN values[field.id] = field.placeholder
                   ELSE values[field.id] \in Range(stdin)
C18_Witness ==
    /\ pc = "finalize"
    /\ \E i \in DOMAIN edit_fields :
         /\ edit_fields[i].required
         /\ edit_fields[i].id = "cov19"
         /\ edit_fields[i].placeholder # ""

\* C19: do_login runs at most once in a process, and every try_to_book call
\* runs after it
C19_LoginOnce ==
    /\ logins <= 1
    /\ pc \in BookingPcs \cup {"place_ret", "book_ret"} => logged /\ logins = 1
C19_Witness == pc = "open_center" /\ logged /\ logins = 1 /\ prior # None

\* C20: the attach request is the create request with the second slot
\* added, and the finalize request and the read-back target the appointment
\* id of the answer to the attach request
C20_AttachKeepsCreate ==
    /\ (req.kind = "appointment" /\ req.data.second_slot # None)
           => /\ create_data # None
              /\ create_data.second_slot = None
              /\ req.data = [create_data EXCEPT !.second_slot = req.data.second_slot]
    /\ req.kind = "appointment_post" => req.id = attach_id
C20_Witness ==
    /\ req.kind = "appointment_post" /\ req.method = "GET"
    /\ attach_id = 2

====
